---- MODULE Spec2Model ----
(***************************************************************************)
(* SubSignal (main.py): a sequential pipeline                              *)
(*   fetch_reddit_posts -> ask_groq_select_idea (per subreddit)            *)
(*   -> ask_gemini_rank_ideas -> send_to_discord                           *)
(* driven by main().  Python dicts are records whose domain is the set of  *)
(* keys present; Python exceptions are class names matched against the    *)
(* except clauses in source order.                                         *)
(***************************************************************************)
EXTENDS Integers, Sequences, FiniteSets, TLC

VARIABLES
    \* module globals read from the environment, main.py:19-21
    GROQ_API_KEY, GEMINI_API_KEY, DISCORD_WEBHOOK_URL,
    \* the local time zone of the process, in seconds east of UTC
    utc_offset,
    \* where the run is: loading the module, then inside main()
    pc,
    \* fetch_reddit_posts: the dict being built, as (key, value) pairs in
    \* insertion order
    all_data,
    \* fetch_reddit_posts: what requests.get and feedparser gave for each
    \* subreddit tried so far by the call in progress
    feeds_seen,
    \* main(): locals (sub_i is the loop's i)
    reddit_data, sub_i, selected_ideas, analysis,
    \* the files written so far
    written,
    \* send_to_discord: the embeds built and the index of the next one to send
    embeds, next_embed,
    \* every requests.post to the webhook so far, in order, each with whether
    \* time.sleep(0.5) followed it
    posted,
    \* every call of a stage function, and of time.sleep by main(), so far, in
    \* order
    calls,
    \* the stage functions an exception has propagated out of
    escaped,
    \* ask_groq_select_idea and ask_gemini_rank_ideas called on their own
    select_call, rank_call

(***************************************************************************)
(* Bounds of the model.                                                    *)
(***************************************************************************)
\* largest candidate group handed to ask_groq_select_idea on its own
MaxGroup == 3

\* most selected ideas handed to ask_gemini_rank_ideas or send_to_discord on
\* their own
MaxIdeas == 4

(***************************************************************************)
(* Configuration, main.py:15-16.                                           *)
(***************************************************************************)
subreddits == <<"startups", "Entrepreneur", "StartupIdeas", "SaaS">>

output_file == "subsignal_top_posts.json"

\* Python's None where a str is expected
PyNone == "<None>"

\* a str value: what it says (a name and a number) and how many characters it has
StrN(id, no, n) == [id |-> id, no |-> no, len |-> n, cut |-> FALSE]

Str(id, n) == StrN(id, 0, n)

(***************************************************************************)
(* Exceptions: the classes an exception is an instance of.                 *)
(***************************************************************************)
Supers(exc) ==
    CASE exc = "HTTPError" -> {"HTTPError", "RequestException", "Exception"}
      [] exc = "ConnectionError" -> {"ConnectionError", "RequestException", "Exception"}
      [] exc = "JSONDecodeError" -> {"JSONDecodeError", "ValueError", "Exception"}
      [] OTHER -> {exc, "Exception"}

IsInstance(exc, cls) == cls \in Supers(exc)

Raise(exc) == [exc |-> exc]

Return(v) == [exc |-> "none", val |-> v]

(***************************************************************************)
(* LLM response text as a sequence of tokens: a fence tagged json, a bare  *)
(* fence, whitespace, text that is no JSON, or one complete JSON document. *)
(***************************************************************************)
FenceJson == [tok |-> "fence_json"]

Fence == [tok |-> "fence"]

Space == [tok |-> " "]

Junk == [tok |-> "junk"]

DocTok(d) == [tok |-> "doc", doc |-> d]

\* sep in text: the bare fence is also a substring of the json fence
Contains(text, sep) ==
    \E i \in 1..Len(text) : text[i] = sep \/ (sep = Fence /\ text[i] = FenceJson)

IsSep(t, sep) == t = sep \/ (sep = Fence /\ t = FenceJson)

FirstSep(text, sep) ==
    IF Contains(text, sep)
    THEN CHOOSE i \in 1..Len(text) :
            IsSep(text[i], sep) /\ \A j \in 1..(i - 1) : ~IsSep(text[j], sep)
    ELSE Len(text) + 1

\* text.split(sep)[0]
SplitHead(text, sep) == SubSeq(text, 1, FirstSep(text, sep) - 1)

\* what follows the first sep; a json fence cut by the bare fence leaves its "json"
SplitTail(text, sep) ==
    LET i == FirstSep(text, sep)
        rest == SubSeq(text, i + 1, Len(text))
    IN IF i <= Len(text) /\ text[i] # sep THEN <<Junk>> \o rest ELSE rest

\* text.split(sep)[1], taken only when sep occurs in text
SplitSecond(text, sep) == SplitHead(SplitTail(text, sep), sep)

\* main.py:152-155 and 248-251
strip_fences(response_text) ==
    IF Contains(response_text, FenceJson)
    THEN SplitHead(SplitSecond(response_text, FenceJson), Fence)
    ELSE IF Contains(response_text, Fence)
    THEN SplitHead(SplitSecond(response_text, Fence), Fence)
    ELSE response_text

RECURSIVE LStrip(_)
LStrip(text) ==
    IF Len(text) > 0 /\ Head(text) = Space THEN LStrip(Tail(text)) ELSE text

RECURSIVE RStrip(_)
RStrip(text) ==
    IF Len(text) > 0 /\ text[Len(text)] = Space
    THEN RStrip(SubSeq(text, 1, Len(text) - 1))
    ELSE text

\* str.strip()
Strip(text) == RStrip(LStrip(text))

\* json.loads: exactly one document, whitespace around it allowed
json_loads(text) ==
    LET s == Strip(text)
    IN IF Len(s) = 1 /\ s[1].tok = "doc"
       THEN Return(s[1].doc)
       ELSE Raise("JSONDecodeError")

(***************************************************************************)
(* JSON values.                                                            *)
(***************************************************************************)
JObject(d) == [kind |-> "object", val |-> d]

JArray(s) == [kind |-> "array", val |-> s]

JInt(n) == [t |-> "int", n |-> n]

\* a JSON number with a fractional representation, in halves: JFloat(3) is 1.5
JFloat(h) == [t |-> "float", h |-> h]

JStr == [t |-> "str"]

JNull == [t |-> "null"]

(***************************************************************************)
(* ask_groq_select_idea, main.py:125-200.                                  *)
(***************************************************************************)
\* the url read from the first post instead of the selected one
SelectedIdeaDict_UrlOfFirst(posts, selected_idx, subreddit, response_json) ==
    [subreddit |-> subreddit,
     title |-> posts[selected_idx + 1].title,
     body |-> posts[selected_idx + 1].body,
     url |-> posts[1].url,
     score |-> posts[selected_idx + 1].score,
     groq_reasoning |->
        IF "reasoning" \in DOMAIN response_json
        THEN response_json.reasoning
        ELSE "No reasoning provided"]

SelectedIdeaDict(posts, selected_idx, subreddit, response_json) ==
    [subreddit |-> subreddit,
     title |-> posts[selected_idx + 1].title,
     body |-> posts[selected_idx + 1].body,
     url |-> posts[selected_idx + 1].url,
     score |-> posts[selected_idx + 1].score,
     groq_reasoning |->
        IF "reasoning" \in DOMAIN response_json
        THEN response_json.reasoning
        ELSE "No reasoning provided"]

JsonFallbackDict(posts, subreddit) ==
    [subreddit |-> subreddit,
     title |-> posts[1].title,
     body |-> posts[1].body,
     url |-> posts[1].url,
     score |-> posts[1].score,
     groq_reasoning |-> "Selected by score (JSON parsing failed)"]

GroqFallbackDict(posts, subreddit) ==
    [subreddit |-> subreddit,
     title |-> posts[1].title,
     body |-> posts[1].body,
     url |-> posts[1].url,
     score |-> posts[1].score,
     groq_reasoning |-> "Selected by score (GROQ error)"]

\* an index out of range replaced by the last index instead of the first
SelectedIdx_ClampToLast(num, posts) ==
    CASE num.t = "int" ->
            IF num.n - 1 < 0 \/ num.n - 1 >= Len(posts)
            THEN Return(Len(posts) - 1)
            ELSE Return(num.n - 1)
      [] num.t = "float" ->
            IF num.h - 2 < 0 \/ num.h - 2 >= 2 * Len(posts)
            THEN Return(Len(posts) - 1)
            ELSE Raise("TypeError")
      [] OTHER -> Raise("TypeError")

\* main.py:159-164: the 0-based index chosen from selected_number, or the
\* exception raised by the subtraction or by indexing posts with it
SelectedIdx(num, posts) ==
    CASE num.t = "int" ->
            IF num.n - 1 < 0 \/ num.n - 1 >= Len(posts)
            THEN Return(0)
            ELSE Return(num.n - 1)
      [] num.t = "float" ->
            IF num.h - 2 < 0 \/ num.h - 2 >= 2 * Len(posts)
            THEN Return(0)
            ELSE Raise("TypeError")
      [] OTHER -> Raise("TypeError")

\* the try block, main.py:127-176
SelectTry(posts, subreddit, llm) ==
    IF llm.kind = "raise" THEN Raise(llm.exc)
    ELSE IF llm.kind = "none" THEN Raise("TypeError")
    ELSE
    LET parsed == json_loads(strip_fences(llm.text))
    IN  IF parsed.exc # "none" THEN parsed
        ELSE IF parsed.val.kind # "object" THEN Raise("TypeError")
        ELSE IF "selected_number" \notin DOMAIN parsed.val.val THEN Raise("KeyError")
        ELSE
        LET idx == SelectedIdx(parsed.val.val.selected_number, posts)
        IN  IF idx.exc # "none" THEN idx
            ELSE IF Len(posts) = 0 THEN Raise("IndexError")
            ELSE Return(SelectedIdeaDict(posts, idx.val, subreddit, parsed.val.val))

\* the except clauses with the generic one written first
SelectHandlers_GenericFirst(posts, subreddit, exc) ==
    IF IsInstance(exc, "Exception")
    THEN IF Len(posts) = 0 THEN Raise("IndexError")
         ELSE Return(GroqFallbackDict(posts, subreddit))
    ELSE IF IsInstance(exc, "JSONDecodeError")
    THEN IF Len(posts) = 0 THEN Raise("IndexError")
         ELSE Return(JsonFallbackDict(posts, subreddit))
    ELSE Raise(exc)

\* the except clauses, main.py:178-200, in source order
SelectHandlers(posts, subreddit, exc) ==
    IF IsInstance(exc, "JSONDecodeError")
    THEN IF Len(posts) = 0 THEN Raise("IndexError")
         ELSE Return(JsonFallbackDict(posts, subreddit))
    ELSE IF IsInstance(exc, "Exception")
    THEN IF Len(posts) = 0 THEN Raise("IndexError")
         ELSE Return(GroqFallbackDict(posts, subreddit))
    ELSE Raise(exc)

ask_groq_select_idea(posts, subreddit, llm) ==
    LET r == SelectTry(posts, subreddit, llm)
    IN  IF r.exc = "none" THEN r ELSE SelectHandlers(posts, subreddit, r.exc)

(***************************************************************************)
(* Outcomes of the Selection LLM boundary.                                 *)
(***************************************************************************)
SelectedNumbers ==
    {JInt(n) : n \in (-1)..(MaxGroup + 2)}
    \cup {JFloat(h) : h \in {-1, 3, 4, 2 * MaxGroup + 5}}
    \cup {JStr, JNull}

Reasonings == {"rationale", "", PyNone}

SelectDocs ==
    {JObject([selected_number |-> v, reasoning |-> r, title |-> "t"]) :
        v \in SelectedNumbers, r \in Reasonings}
    \cup {JObject([selected_number |-> v, title |-> "t"]) : v \in SelectedNumbers}
    \cup {JObject([reasoning |-> r, title |-> "t"]) : r \in Reasonings}
    \cup {JObject([title |-> "t"]), JArray(<<>>)}

\* ways the document may be wrapped in the response text
Wrappings(d) ==
    {<<d>>,
     <<Space, d, Space>>,
     <<FenceJson, Space, d, Space, Fence>>,
     <<Fence, d, Fence>>,
     <<Junk, FenceJson, d, Fence, Junk>>,
     <<Junk, Fence, d, Fence, Junk>>,
     <<FenceJson, d>>,
     <<d, Fence>>,
     <<Fence, Fence, d>>,
     <<Junk, d>>,
     <<d, d>>}

SelectTexts ==
    UNION {Wrappings(DocTok(d)) : d \in SelectDocs}
    \cup Wrappings(Junk) \cup {<<>>}

SelectOutcomes ==
    {[kind |-> "raise", exc |-> "GroqError"], [kind |-> "none"]}
    \cup {[kind |-> "text", text |-> t] : t \in SelectTexts}

(***************************************************************************)
(* ask_gemini_rank_ideas, main.py:202-272.                                 *)
(***************************************************************************)
\* the fallback with rank = i, the 0-based position
RankFallback_ZeroBased(ideas) ==
    JObject([rankings |->
                [i \in 1..Len(ideas) |->
                    [rank |-> i - 1,
                     title |-> ideas[i].title,
                     subreddit |-> ideas[i].subreddit,
                     validation_score |-> 7,
                     market_potential |-> Str("Analysis unavailable", 20),
                     recommendation |-> "watch"]],
             overall_analysis |->
                Str("Gemini analysis failed. Manual review recommended.", 50)])

\* main.py:260-272
RankFallback(ideas) ==
    JObject([rankings |->
                [i \in 1..Len(ideas) |->
                    [rank |-> (i - 1) + 1,
                     title |-> ideas[i].title,
                     subreddit |-> ideas[i].subreddit,
                     validation_score |-> 7,
                     market_potential |-> Str("Analysis unavailable", 20),
                     recommendation |-> "watch"]],
             overall_analysis |->
                Str("Gemini analysis failed. Manual review recommended.", 50)])

\* the try block, main.py:204-255
RankTry(ideas, llm) ==
    IF llm.kind = "raise" THEN Raise(llm.exc)
    ELSE IF llm.kind = "none" THEN Raise("TypeError")
    ELSE json_loads(strip_fences(llm.text))

\* the except clause, main.py:257-272
RankHandlers(ideas, exc) ==
    IF IsInstance(exc, "Exception")
    THEN Return(RankFallback(ideas))
    ELSE Raise(exc)

ask_gemini_rank_ideas(ideas, llm) ==
    LET r == RankTry(ideas, llm)
    IN  IF r.exc = "none" THEN r ELSE RankHandlers(ideas, r.exc)

(***************************************************************************)
(* Outcomes of the Ranking LLM boundary.                                   *)
(***************************************************************************)
RankingEntry(idea, rank) ==
    [rank |-> rank,
     title |-> idea.title,
     subreddit |-> idea.subreddit,
     validation_score |-> 8,
     market_potential |-> Str("market", 60),
     feasibility |-> Str("feasibility", 60),
     competitive_advantage |-> Str("advantage", 60),
     future_outlook |-> Str("outlook", 60),
     key_risks |-> Str("risks", 60),
     recommendation |-> "invest"]

Without(d, key) == [k \in DOMAIN d \ {key} |-> d[k]]

\* the rankings list with entry i ranked rankOf[i]
Rankings(ideas, rankOf) ==
    [i \in 1..Len(ideas) |-> RankingEntry(ideas[i], rankOf[i])]

Overall == Str("overall", 200)

InventedIdea ==
    [subreddit |-> "elsewhere", title |-> StrN("title", 0, 40)]

RankDocs(ideas) ==
    LET m == Len(ideas)
        inOrder == [i \in 1..m |-> i]
        reversed == [i \in 1..m |-> m + 1 - i]
        good == Rankings(ideas, inOrder)
    IN  {JObject([rankings |-> good, overall_analysis |-> Overall]),
         JObject([rankings |-> Rankings(ideas, reversed), overall_analysis |-> Overall]),
         JObject([rankings |-> good]),
         JObject([rankings |-> SubSeq(good, 1, m - 1), overall_analysis |-> Overall]),
         JObject([rankings |-> Append(good, RankingEntry(InventedIdea, m + 1)),
                  overall_analysis |-> Overall]),
         JObject([rankings |-> Rankings(ideas, [i \in 1..m |-> 1]),
                  overall_analysis |-> Overall]),
         JObject([rankings |-> Rankings(ideas, [i \in 1..m |-> i - 1]),
                  overall_analysis |-> Overall]),
         JObject([rankings |-> Rankings(ideas, [i \in 1..m |-> i + 4]),
                  overall_analysis |-> Overall]),
         JObject([rankings |-> Rankings(ideas, [i \in 1..m |-> i + 3]),
                  overall_analysis |-> Overall]),
         JObject([rankings |-> [i \in 1..m |-> Without(good[i], "title")],
                  overall_analysis |-> Overall]),
         JObject([rankings |-> [i \in 1..m |-> Without(good[i], "rank")],
                  overall_analysis |-> Overall]),
         JObject([overall_analysis |-> Overall]),
         JArray(<<>>)}

RankTexts(ideas) ==
    UNION {Wrappings(DocTok(d)) : d \in RankDocs(ideas)}
    \cup Wrappings(Junk) \cup {<<>>}

RankOutcomes(ideas) ==
    {[kind |-> "raise", exc |-> "GeminiError"], [kind |-> "none"]}
    \cup {[kind |-> "text", text |-> t] : t \in RankTexts(ideas)}

(***************************************************************************)
(* send_to_discord, main.py:274-402: building the embeds.                  *)
(***************************************************************************)
\* the comparison with the string "None" left out
WebhookConfigured_OnlyFalsy(url) == ~(url = PyNone \/ url = "")

\* main.py:278
WebhookConfigured(url) == ~(url = PyNone \/ url = "" \/ url = "None")

\* the marker appended to max_len characters instead of max_len - 3
truncate_MarkerOverBudget(text, max_len) ==
    IF text.len = 0 \/ text = Str("N/A", 3)
    THEN Str("Not available", 13)
    ELSE IF text.len > max_len
    THEN [text EXCEPT !.len = max_len + 3, !.cut = TRUE]
    ELSE text

\* main.py:287-291
truncate(text, max_len) ==
    IF text.len = 0 \/ text = Str("N/A", 3)
    THEN Str("Not available", 13)
    ELSE IF text.len > max_len
    THEN [text EXCEPT !.len = (max_len - 3) + 3, !.cut = TRUE]
    ELSE text

\* dict.get(key, default)
Get(d, key, default) == IF key \in DOMAIN d THEN d[key] ELSE default

\* main.py:297-305
MainEmbed(ranked) ==
    [title |-> Str("SubSignal: Top Startup Ideas Analysis", 40),
     description |->
        truncate(Get(ranked, "overall_analysis",
                     Str("AI-powered analysis of top Reddit startup ideas", 47)),
                 4096)]

\* main.py:309: the first idea with the ranking's title, or None
IdeaData(ranking, ideas) ==
    LET hits == {k \in 1..Len(ideas) : ideas[k].title = ranking.title}
    IN  IF hits = {} THEN <<>>
        ELSE <<ideas[CHOOSE k \in hits : \A h \in hits : k <= h]>>

\* list[index] of a list of 4 items: the position read, counted from 1
ListIndex4(index) == IF index < 0 THEN index + 4 + 1 ELSE index + 1

\* the characters of the rank emojis, main.py:311
RankEmojiLen == <<1, 1, 1, 3>>

Digits(n) == IF n < 0 THEN 2 ELSE IF n < 10 THEN 1 ELSE 2

\* main.py:350: f"{rank_emoji} Rank {rank}: {title}"
RankTitle(ranking) ==
    [ranking.title EXCEPT
        !.len = RankEmojiLen[ListIndex4(ranking.rank - 1)] + 6 + Digits(ranking.rank)
                + 2 + ranking.title.len]

\* main.py:321-347: one field for each long text that is present and not empty
LongField(ranking, key) ==
    IF key \in DOMAIN ranking /\ ranking[key].len > 0
    THEN <<[name |-> key, value |-> truncate(ranking[key], 1024), inline |-> FALSE]>>
    ELSE <<>>

\* main.py:314-318
BaseFields(ranking) ==
    <<[name |-> "Subreddit", value |-> Get(ranking, "subreddit", "unknown"), inline |-> TRUE],
      [name |-> "Validation", value |-> Get(ranking, "validation_score", -1), inline |-> TRUE],
      [name |-> "Status", value |-> Get(ranking, "recommendation", "watch"), inline |-> TRUE]>>

\* main.py:355-361: fields.insert(3, ...) when the join by title found a url
WithScore(fields, idea_data) ==
    IF idea_data # <<>> /\ idea_data[1].url.len > 0
    THEN SubSeq(fields, 1, 3)
         \o <<[name |-> "Reddit Score", value |-> idea_data[1].score, inline |-> TRUE]>>
         \o SubSeq(fields, 4, Len(fields))
    ELSE fields

\* main.py:309-363, one pass of the loop
IdeaEmbed(ranking, ideas) ==
    IF Len(ideas) > 0 /\ "title" \notin DOMAIN ranking THEN Raise("KeyError")
    ELSE IF "rank" \notin DOMAIN ranking THEN Raise("KeyError")
    ELSE IF ranking.rank - 1 \notin (-4)..3 THEN Raise("IndexError")
    ELSE IF "title" \notin DOMAIN ranking THEN Raise("KeyError")
    ELSE
    LET idea_data == IdeaData(ranking, ideas)
        fields == BaseFields(ranking)
                  \o LongField(ranking, "market_potential")
                  \o LongField(ranking, "feasibility")
                  \o LongField(ranking, "future_outlook")
                  \o LongField(ranking, "key_risks")
    IN  Return([title |-> truncate(RankTitle(ranking), 256),
                rank |-> ranking.rank,
                color |-> ListIndex4(ranking.rank - 1),
                fields |-> WithScore(fields, idea_data),
                url |-> IF idea_data # <<>> /\ idea_data[1].url.len > 0
                        THEN idea_data[1].url ELSE Str("", 0)])

\* rankings[:4]
First4(rankings) == SubSeq(rankings, 1, IF Len(rankings) < 4 THEN Len(rankings) ELSE 4)

\* an entry whose embed cannot be built left out instead of ending the build
BuildEmbeds_SkipBadEntries(ranked, ideas) ==
    IF ranked.kind # "object" THEN Raise("AttributeError")
    ELSE IF "rankings" \notin DOMAIN ranked.val THEN Raise("KeyError")
    ELSE
    LET rankings == First4(ranked.val.rankings)
        built == [k \in 1..Len(rankings) |-> IdeaEmbed(rankings[k], ideas)]
        good == {k \in 1..Len(rankings) : built[k].exc = "none"}
    IN  Return(<<MainEmbed(ranked.val)>>
               \o [k \in 1..Cardinality(good) |->
                      built[CHOOSE g \in good :
                              Cardinality({h \in good : h < g}) = k - 1].val])

\* main.py:293-363: all the embeds, or the first exception raised building them
BuildEmbeds(ranked, ideas) ==
    IF ranked.kind # "object" THEN Raise("AttributeError")
    ELSE IF "rankings" \notin DOMAIN ranked.val THEN Raise("KeyError")
    ELSE
    LET rankings == First4(ranked.val.rankings)
        built == [k \in 1..Len(rankings) |-> IdeaEmbed(rankings[k], ideas)]
        bad == {k \in 1..Len(rankings) : built[k].exc # "none"}
    IN  IF bad # {}
        THEN built[CHOOSE k \in bad : \A b \in bad : k <= b]
        ELSE Return(<<MainEmbed(ranked.val)>> \o [k \in 1..Len(rankings) |-> built[k].val])

(***************************************************************************)
(* Outcomes of a POST to the webhook: a response with a status code, or    *)
(* an exception raised by requests.post itself.                            *)
(***************************************************************************)
PostOutcomes ==
    {[kind |-> "status", code |-> c] : c \in {204, 302, 404}}
    \cup {[kind |-> "raise", exc |-> "ConnectionError"]}

\* requests.post followed by response.raise_for_status(), main.py:373-374, 387-388
PostRaises(outcome) ==
    IF outcome.kind = "raise" THEN outcome.exc
    ELSE IF outcome.code >= 400 /\ outcome.code < 600 THEN "HTTPError"
    ELSE "none"

\* the except clauses around one send, main.py:376 and 391
SendInnerCatches(exc) == IsInstance(exc, "HTTPError")

\* the generic except clause around the function body left out
SendOuterCatches_HTTPOnly(exc) == IsInstance(exc, "HTTPError")

\* the except clauses around the whole function body, main.py:397-402
SendOuterCatches(exc) == IsInstance(exc, "HTTPError") \/ IsInstance(exc, "Exception")

(***************************************************************************)
(* fetch_reddit_posts, main.py:32-98.                                      *)
(***************************************************************************)
\* now_ts, main.py:35
NowTs == 20 * 24 * 3600

\* time.mktime of a struct_time: the fields are read as local time, so for the
\* UTC fields of the instant t the result is t less the zone's offset from UTC
mktime(t, tz) == t - tz

\* the local time zones of a run of main()
RunUtcOffsets == {0, 5 * 3600}

\* one feed entry: published is <<t>> where entry.published_parsed holds the
\* UTC fields of the instant t, or <<>> when the entry has no published_parsed
FeedEntry(no, published, content_len) ==
    [title |-> StrN("title", no, 40), link |-> StrN("url", no, 30),
     content |-> StrN("body", no, content_len), published |-> published]

\* main.py:59
PublishedTs(entry, tz) ==
    IF entry.published = <<>> THEN 0 ELSE mktime(entry.published[1], tz)

\* main.py:70-77
PostOf(entry, tz) ==
    [title |-> entry.title,
     body |-> IF entry.content.len > 500
              THEN [entry.content EXCEPT !.len = 500]
              ELSE entry.content,
     score |-> 0,
     url |-> entry.link,
     num_comments |-> 0,
     created_utc |-> PublishedTs(entry, tz)]

\* main.py:52-80
RECURSIVE RecentPosts(_, _, _)
RecentPosts(entries, now_ts, tz) ==
    IF entries = <<>> THEN <<>>
    ELSE (IF now_ts - PublishedTs(Head(entries), tz) <= 24 * 3600
          THEN <<PostOf(Head(entries), tz)>>
          ELSE <<>>)
         \o RecentPosts(Tail(entries), now_ts, tz)

\* main.py:83
First5(recent_posts) ==
    SubSeq(recent_posts, 1, IF Len(recent_posts) < 5 THEN Len(recent_posts) ELSE 5)

\* the two except clauses of the loop body left out
FetchOne_NoHandlers(feed, now_ts, tz) ==
    IF feed.kind = "raise"
    THEN Raise(feed.exc)
    ELSE Return(First5(RecentPosts(feed.entries, now_ts, tz)))

\* main.py:40-96: the value stored for one subreddit, or the exception that
\* neither except clause catches
FetchOne(feed, now_ts, tz) ==
    IF feed.kind = "raise"
    THEN IF IsInstance(feed.exc, "RequestException") THEN Return(<<>>)
         ELSE IF IsInstance(feed.exc, "Exception") THEN Return(<<>>)
         ELSE Raise(feed.exc)
    ELSE Return(First5(RecentPosts(feed.entries, now_ts, tz)))

\* what requests.get and feedparser may give for subreddit number k
Feeds(k) ==
    {[kind |-> "raise", exc |-> "ConnectionError"],
     [kind |-> "raise", exc |-> "HTTPError"],
     [kind |-> "raise", exc |-> "FeedError"],
     [kind |-> "feed",
      entries |-> <<FeedEntry(10 * k + 1, <<NowTs - 24 * 3600 - 1>>, 300)>>],
     [kind |-> "feed",
      entries |-> <<FeedEntry(10 * k + 1, <<NowTs - 3600>>, 300),
                    FeedEntry(10 * k + 2, <<NowTs - 7200>>, 700)>>]}

(***************************************************************************)
(* main(), main.py:404-484.                                                *)
(***************************************************************************)
\* only an unset variable counted as missing, an empty one let through
Missing_OnlyUnset(key) == key = PyNone

\* `not key`, main.py:412-415
Missing(key) == key = PyNone \/ key = ""

\* main.py:26-27: what the constructor of an API client does with the key. The
\* clients are library code: given no usable key a constructor may raise or
\* may build a client that fails when it is used.
ClientOutcomes(key) == IF key = PyNone \/ key = "" THEN {"client", "raise"} ELSE {"client"}

\* main.py:12-29: the module-level statements, run before main() is called
LoadModule ==
    /\ pc = "import"
    /\ \E groq_client \in ClientOutcomes(GROQ_API_KEY),
          gemini_client \in ClientOutcomes(GEMINI_API_KEY) :
          pc' = IF groq_client = "raise" \/ gemini_client = "raise"
                THEN "import_failed"
                ELSE "start"
    /\ UNCHANGED <<utc_offset, feeds_seen, GROQ_API_KEY, GEMINI_API_KEY, DISCORD_WEBHOOK_URL, all_data,
                   reddit_data, sub_i, selected_ideas, analysis, written, embeds,
                   next_embed, posted, calls, escaped, select_call, rank_call>>

\* the check for an empty group left out
GroupIsEmpty_Never(posts) == FALSE

\* `not posts`, main.py:448
GroupIsEmpty(posts) == posts = <<>>

\* the check for an empty selection left out
NoIdeasSelected_Never(ideas) == FALSE

\* `not selected_ideas`, main.py:460
NoIdeasSelected(ideas) == ideas = <<>>

\* main.py:410-425
MainCheckKeys ==
    /\ pc = "start"
    /\ pc' = IF Missing(GROQ_API_KEY) \/ Missing(GEMINI_API_KEY) THEN "done" ELSE "fetch"
    /\ UNCHANGED <<utc_offset, feeds_seen, GROQ_API_KEY, GEMINI_API_KEY, DISCORD_WEBHOOK_URL, all_data,
                   reddit_data, sub_i, selected_ideas, analysis, written, embeds,
                   next_embed, posted, calls, escaped, select_call, rank_call>>

\* main.py:39-96, one pass of the loop over subreddits
FetchSubreddit(feeds) ==
    /\ pc = "fetch"
    /\ Len(all_data) < Len(subreddits)
    /\ \E feed \in feeds :
          LET r == FetchOne(feed, NowTs, utc_offset)
          IN  /\ feeds_seen' = Append(feeds_seen, feed)
              /\ IF r.exc = "none"
                 THEN /\ all_data' = Append(all_data, <<subreddits[Len(all_data) + 1], r.val>>)
                      /\ UNCHANGED <<pc, escaped>>
                 ELSE /\ escaped' = escaped \cup {"fetch_reddit_posts"}
                      /\ pc' = "crashed"
                      /\ UNCHANGED all_data
    /\ UNCHANGED <<utc_offset, GROQ_API_KEY, GEMINI_API_KEY, DISCORD_WEBHOOK_URL,
                   reddit_data, sub_i, selected_ideas, analysis, written, embeds,
                   next_embed, posted, calls, select_call, rank_call>>

\* main.py:98 and 436-441
SaveRaw ==
    /\ pc = "fetch"
    /\ Len(all_data) = Len(subreddits)
    /\ reddit_data' = all_data
    /\ feeds_seen' = <<>>
    /\ calls' = Append(calls, [op |-> "fetch_reddit_posts"])
    /\ written' = written \cup {output_file}
    /\ sub_i' = 0
    /\ pc' = "select"
    /\ UNCHANGED <<utc_offset, GROQ_API_KEY, GEMINI_API_KEY, DISCORD_WEBHOOK_URL, all_data,
                   selected_ideas, analysis, embeds, next_embed, posted, escaped,
                   select_call, rank_call>>

\* the Selection LLM outcomes tried inside a whole run
RunSelectOutcomes ==
    {[kind |-> "raise", exc |-> "GroqError"],
     [kind |-> "none"],
     [kind |-> "text", text |-> <<Junk>>],
     [kind |-> "text", text |-> <<DocTok(JArray(<<>>))>>],
     [kind |-> "text", text |-> <<DocTok(JObject([title |-> "t"]))>>],
     [kind |-> "text", text |-> <<DocTok(JObject([selected_number |-> JStr]))>>],
     [kind |-> "text", text |-> <<DocTok(JObject([selected_number |-> JFloat(3)]))>>],
     [kind |-> "text",
      text |-> <<FenceJson, DocTok(JObject([selected_number |-> JInt(2),
                                            reasoning |-> "rationale",
                                            title |-> "t"])), Fence>>]}

\* main.py:455: `if i < len(reddit_data) - 1`, i counted from 0
SleepAfterGroup(i, groups) == i < Len(groups) - 1

\* main.py:447-458, one pass of the loop over reddit_data.items()
SelectSubreddit ==
    /\ pc = "select"
    /\ sub_i < Len(reddit_data)
    /\ LET subreddit == reddit_data[sub_i + 1][1]
           posts == reddit_data[sub_i + 1][2]
       IN  IF GroupIsEmpty(posts)
           THEN UNCHANGED <<pc, selected_ideas, calls, escaped>>
           ELSE \E llm \in RunSelectOutcomes :
                   LET r == ask_groq_select_idea(posts, subreddit, llm)
                       call == [op |-> "ask_groq_select_idea",
                                subreddit |-> subreddit,
                                failed |-> SelectTry(posts, subreddit, llm).exc # "none"]
                   IN  /\ calls' = IF r.exc = "none" /\ SleepAfterGroup(sub_i, reddit_data)
                                   THEN calls \o <<call, [op |-> "time.sleep", seconds |-> 30]>>
                                   ELSE Append(calls, call)
                       /\ IF r.exc = "none"
                          THEN /\ selected_ideas' = Append(selected_ideas, r.val)
                               /\ UNCHANGED <<pc, escaped>>
                          ELSE /\ escaped' = escaped \cup {"ask_groq_select_idea"}
                               /\ pc' = "crashed"
                               /\ UNCHANGED selected_ideas
    /\ sub_i' = sub_i + 1
    /\ UNCHANGED <<utc_offset, feeds_seen, GROQ_API_KEY, GEMINI_API_KEY, DISCORD_WEBHOOK_URL, all_data,
                   reddit_data, analysis, written, embeds, next_embed, posted,
                   select_call, rank_call>>

\* main.py:460-467
SaveSelected ==
    /\ pc = "select"
    /\ sub_i = Len(reddit_data)
    /\ IF NoIdeasSelected(selected_ideas)
       THEN pc' = "done" /\ UNCHANGED written
       ELSE pc' = "rank" /\ written' = written \cup {"selected_ideas.json"}
    /\ UNCHANGED <<utc_offset, feeds_seen, GROQ_API_KEY, GEMINI_API_KEY, DISCORD_WEBHOOK_URL, all_data,
                   reddit_data, sub_i, selected_ideas, analysis, embeds, next_embed,
                   posted, calls, escaped, select_call, rank_call>>

\* the Ranking LLM outcomes tried inside a whole run
RunRankOutcomes(ideas) ==
    {[kind |-> "raise", exc |-> "GeminiError"],
     [kind |-> "none"],
     [kind |-> "text", text |-> <<Junk>>],
     [kind |-> "text", text |-> <<DocTok(JArray(<<>>))>>],
     [kind |-> "text",
      text |-> <<DocTok(JObject([rankings |-> Rankings(ideas, [k \in 1..Len(ideas) |-> k + 4]),
                                 overall_analysis |-> Overall]))>>],
     [kind |-> "text",
      text |-> <<DocTok(JObject([rankings |-> Rankings(ideas, [k \in 1..Len(ideas) |-> k]),
                                 overall_analysis |-> Overall]))>>],
     [kind |-> "text", text |-> <<DocTok(JObject([overall_analysis |-> Overall]))>>]}

\* main.py:469-476
RankAndSave ==
    /\ pc = "rank"
    /\ \E llm \in RunRankOutcomes(selected_ideas) :
          LET r == ask_gemini_rank_ideas(selected_ideas, llm)
          IN  /\ calls' = Append(calls, [op |-> "ask_gemini_rank_ideas",
                                         given |-> selected_ideas])
              /\ IF r.exc = "none"
                 THEN /\ analysis' = r.val
                      /\ written' = written \cup {"gemini_analysis.json"}
                      /\ pc' = "publish"
                      /\ UNCHANGED escaped
                 ELSE /\ escaped' = escaped \cup {"ask_gemini_rank_ideas"}
                      /\ pc' = "crashed"
                      /\ UNCHANGED <<analysis, written>>
    /\ UNCHANGED <<utc_offset, feeds_seen, GROQ_API_KEY, GEMINI_API_KEY, DISCORD_WEBHOOK_URL, all_data,
                   reddit_data, sub_i, selected_ideas, embeds, next_embed, posted,
                   select_call, rank_call>>

(***************************************************************************)
(* send_to_discord, main.py:274-402: the steps.                            *)
(***************************************************************************)
\* where an exception raised inside the function body leaves main()
AfterSendRaise(exc) == IF SendOuterCatches(exc) THEN "published" ELSE "crashed"

\* main.py:277-363: the configuration check and the building of the embeds
DiscordBuild ==
    /\ pc = "publish"
    /\ calls' = Append(calls, [op |-> "send_to_discord"])
    /\ IF ~WebhookConfigured(DISCORD_WEBHOOK_URL)
       THEN pc' = "published" /\ UNCHANGED <<embeds, next_embed, escaped>>
       ELSE LET b == BuildEmbeds(analysis, selected_ideas)
            IN  IF b.exc = "none"
                THEN /\ embeds' = b.val
                     /\ next_embed' = 0
                     /\ pc' = "send_main"
                     /\ UNCHANGED escaped
                ELSE /\ pc' = AfterSendRaise(b.exc)
                     /\ escaped' = IF SendOuterCatches(b.exc) THEN escaped
                                   ELSE escaped \cup {"send_to_discord"}
                     /\ UNCHANGED <<embeds, next_embed>>
    /\ UNCHANGED <<utc_offset, feeds_seen, GROQ_API_KEY, GEMINI_API_KEY, DISCORD_WEBHOOK_URL, all_data,
                   reddit_data, sub_i, selected_ideas, analysis, written, posted,
                   select_call, rank_call>>

\* one requests.post with its raise_for_status and the except clauses around
\* it: the send of embeds[next_embed], then on to `after` unless an exception
\* leaves the loop; `pause` says whether time.sleep(0.5) follows
\* raise_for_status inside the try block
DiscordPost(outcomes, after, pause) ==
    \E outcome \in outcomes :
        LET exc == PostRaises(outcome)
        IN  /\ posted' = Append(posted, [embed |-> next_embed, outcome |-> outcome,
                                         slept |-> pause /\ exc = "none"])
            /\ IF exc = "none" \/ SendInnerCatches(exc)
               THEN /\ pc' = after
                    /\ next_embed' = next_embed + 1
                    /\ UNCHANGED escaped
               ELSE /\ pc' = AfterSendRaise(exc)
                    /\ escaped' = IF SendOuterCatches(exc) THEN escaped
                                  ELSE escaped \cup {"send_to_discord"}
                    /\ UNCHANGED next_embed

\* the webhook outcomes tried inside a whole run
RunPostOutcomes ==
    {[kind |-> "status", code |-> 204], [kind |-> "status", code |-> 404],
     [kind |-> "raise", exc |-> "ConnectionError"]}

\* main.py:365-377
DiscordSendMain(outcomes) ==
    /\ pc = "send_main"
    /\ DiscordPost(outcomes, "send_ideas", FALSE)
    /\ UNCHANGED <<utc_offset, feeds_seen, GROQ_API_KEY, GEMINI_API_KEY, DISCORD_WEBHOOK_URL, all_data,
                   reddit_data, sub_i, selected_ideas, analysis, written, embeds,
                   calls, select_call, rank_call>>

\* main.py:379-393, one pass of the loop over embeds[1:]
DiscordSendIdea(outcomes) ==
    /\ pc = "send_ideas"
    /\ next_embed < Len(embeds)
    /\ DiscordPost(outcomes, "send_ideas", TRUE)
    /\ UNCHANGED <<utc_offset, feeds_seen, GROQ_API_KEY, GEMINI_API_KEY, DISCORD_WEBHOOK_URL, all_data,
                   reddit_data, sub_i, selected_ideas, analysis, written, embeds,
                   calls, select_call, rank_call>>

\* main.py:395
DiscordReturn ==
    /\ pc = "send_ideas"
    /\ next_embed = Len(embeds)
    /\ pc' = "published"
    /\ UNCHANGED <<utc_offset, feeds_seen, GROQ_API_KEY, GEMINI_API_KEY, DISCORD_WEBHOOK_URL, all_data,
                   reddit_data, sub_i, selected_ideas, analysis, written, embeds,
                   next_embed, posted, calls, escaped, select_call, rank_call>>

\* main.py:482-484
MainFinish ==
    /\ pc = "published"
    /\ pc' = "done"
    /\ UNCHANGED <<utc_offset, feeds_seen, GROQ_API_KEY, GEMINI_API_KEY, DISCORD_WEBHOOK_URL, all_data,
                   reddit_data, sub_i, selected_ideas, analysis, written, embeds,
                   next_embed, posted, calls, escaped, select_call, rank_call>>

(***************************************************************************)
(* The whole run.                                                          *)
(***************************************************************************)
EnvValues == {PyNone, "", "set"}

WebhookValues == {PyNone, "", "None", "https://discord.example/webhook"}

NoCall == [returned |-> FALSE]

\* main()'s locals and the histories before anything has run
Fresh ==
    /\ all_data = <<>>
    /\ feeds_seen = <<>>
    /\ reddit_data = <<>>
    /\ sub_i = 0
    /\ selected_ideas = <<>>
    /\ analysis = JNull
    /\ written = {}
    /\ embeds = <<>>
    /\ next_embed = 0
    /\ posted = <<>>
    /\ calls = <<>>
    /\ escaped = {}

Init ==
    /\ GROQ_API_KEY \in EnvValues
    /\ GEMINI_API_KEY \in EnvValues
    /\ DISCORD_WEBHOOK_URL \in WebhookValues
    /\ utc_offset \in RunUtcOffsets
    /\ pc = "import"
    /\ Fresh
    /\ select_call = NoCall
    /\ rank_call = NoCall

Next ==
    \/ LoadModule
    \/ MainCheckKeys
    \/ FetchSubreddit(Feeds(Len(all_data) + 1))
    \/ SaveRaw
    \/ SelectSubreddit
    \/ SaveSelected
    \/ RankAndSave
    \/ DiscordBuild
    \/ DiscordSendMain(RunPostOutcomes)
    \/ DiscordSendIdea(RunPostOutcomes)
    \/ DiscordReturn
    \/ MainFinish

vars ==
    <<GROQ_API_KEY, GEMINI_API_KEY, DISCORD_WEBHOOK_URL, utc_offset, pc, all_data,
      feeds_seen, reddit_data, sub_i, selected_ideas, analysis, written, embeds, next_embed, posted, calls,
      escaped, select_call, rank_call>>

Spec == Init /\ [][Next]_vars

(***************************************************************************)
(* ask_groq_select_idea called on its own: any non-empty group, any        *)
(* outcome of the LLM boundary.                                            *)
(***************************************************************************)
GroupPost(j) ==
    [title |-> StrN("title", j, 40 + j), body |-> StrN("body", j, 100 + j),
     score |-> 10 * j, url |-> StrN("url", j, 30 + j), num_comments |-> j,
     created_utc |-> 1000 + j]

Group(n) == [j \in 1..n |-> GroupPost(j)]

\* nothing of main() runs
Idle ==
    /\ GROQ_API_KEY = "set"
    /\ GEMINI_API_KEY = "set"
    /\ DISCORD_WEBHOOK_URL = PyNone
    /\ utc_offset = 0
    /\ pc = "idle"
    /\ Fresh

InitSelect ==
    /\ Idle
    /\ rank_call = NoCall
    /\ \E n \in 1..MaxGroup, s \in 1..Len(subreddits) :
          select_call = [posts |-> Group(n), subreddit |-> subreddits[s],
                         returned |-> FALSE]

CallSelect ==
    /\ ~select_call.returned
    /\ \E llm \in SelectOutcomes :
          select_call' =
              [posts |-> select_call.posts,
               subreddit |-> select_call.subreddit,
               returned |-> TRUE,
               llm |-> llm,
               ret |-> ask_groq_select_idea(select_call.posts, select_call.subreddit, llm)]
    /\ UNCHANGED <<utc_offset, feeds_seen, GROQ_API_KEY, GEMINI_API_KEY, DISCORD_WEBHOOK_URL, pc, all_data,
                   reddit_data, sub_i, selected_ideas, analysis, written, embeds,
                   next_embed, posted, calls, escaped, rank_call>>

NextSelect == CallSelect

SpecSelect == InitSelect /\ [][NextSelect]_vars

(***************************************************************************)
(* ask_gemini_rank_ideas called on its own: any sequence of 1..MaxIdeas    *)
(* selected ideas, any outcome of the LLM boundary.                        *)
(***************************************************************************)
Idea(k) ==
    [subreddit |-> subreddits[((k - 1) % Len(subreddits)) + 1],
     title |-> StrN("title", k, 40),
     body |-> StrN("body", k, 300),
     url |-> StrN("url", k, 30),
     score |-> 0,
     groq_reasoning |-> IF k % 2 = 0 THEN "Selected by score (GROQ error)"
                        ELSE "rationale"]

Ideas(m) == [k \in 1..m |-> Idea(k)]

InitRank ==
    /\ Idle
    /\ select_call = NoCall
    /\ \E m \in 1..MaxIdeas :
          rank_call = [ideas |-> Ideas(m), returned |-> FALSE]

CallRank ==
    /\ ~rank_call.returned
    /\ \E llm \in RankOutcomes(rank_call.ideas) :
          rank_call' =
              [ideas |-> rank_call.ideas,
               returned |-> TRUE,
               llm |-> llm,
               ret |-> ask_gemini_rank_ideas(rank_call.ideas, llm)]
    /\ UNCHANGED <<utc_offset, feeds_seen, GROQ_API_KEY, GEMINI_API_KEY, DISCORD_WEBHOOK_URL, pc, all_data,
                   reddit_data, sub_i, selected_ideas, analysis, written, embeds,
                   next_embed, posted, calls, escaped, select_call>>

NextRank == CallRank

SpecRank == InitRank /\ [][NextRank]_vars

(***************************************************************************)
(* send_to_discord called on its own: any analysis ask_gemini_rank_ideas   *)
(* can return for 1..MaxIdeas selected ideas, any webhook setting, any     *)
(* outcome of each POST.                                                   *)
(***************************************************************************)
InitSend ==
    /\ GROQ_API_KEY = "set"
    /\ GEMINI_API_KEY = "set"
    /\ DISCORD_WEBHOOK_URL \in WebhookValues
    /\ utc_offset = 0
    /\ pc = "publish"
    /\ all_data = <<>>
    /\ feeds_seen = <<>>
    /\ reddit_data = <<>>
    /\ sub_i = 0
    /\ \E m \in 1..MaxIdeas :
          /\ selected_ideas = Ideas(m)
          /\ \E llm \in RankOutcomes(Ideas(m)) :
                analysis = ask_gemini_rank_ideas(Ideas(m), llm).val
    /\ written = {output_file, "selected_ideas.json", "gemini_analysis.json"}
    /\ embeds = <<>>
    /\ next_embed = 0
    /\ posted = <<>>
    /\ calls = <<>>
    /\ escaped = {}
    /\ select_call = NoCall
    /\ rank_call = NoCall

NextSend ==
    \/ DiscordBuild
    \/ DiscordSendMain(PostOutcomes)
    \/ DiscordSendIdea(PostOutcomes)
    \/ DiscordReturn

SpecSend == InitSend /\ [][NextSend]_vars

(***************************************************************************)
(* Properties of ask_groq_select_idea (SpecSelect).                        *)
(***************************************************************************)
\* what went wrong at the Selection LLM boundary, read off the outcome alone
FailureCategory(llm) ==
    IF llm.kind = "raise" THEN "call_failed"
    ELSE IF llm.kind = "none" THEN "no_text"
    ELSE LET parsed == json_loads(strip_fences(llm.text))
         IN  IF parsed.exc # "none" THEN "unparsable"
             ELSE IF parsed.val.kind # "object" THEN "not_object"
             ELSE IF "selected_number" \notin DOMAIN parsed.val.val THEN "missing_field"
             ELSE IF parsed.val.val.selected_number.t = "int" THEN "ok"
             ELSE "bad_number"

\* the first item of the group as a SelectedIdea with the given reasoning
FirstItemWith(posts, subreddit, reasoning) ==
    [subreddit |-> subreddit,
     title |-> posts[1].title,
     body |-> posts[1].body,
     url |-> posts[1].url,
     score |-> posts[1].score,
     groq_reasoning |-> reasoning]

JsonParseString == "Selected by score (JSON parsing failed)"

ServiceErrorString == "Selected by score (GROQ error)"

\* C1: for every non-empty group and every outcome of the Selection LLM
\* boundary, ask_groq_select_idea raises nothing and returns one SelectedIdea
\* whose title, body, url and score are those of one and the same element of
\* the group.
C1_SelectReturnsOneElementOfGroup ==
    select_call.returned =>
        /\ select_call.ret.exc = "none"
        /\ \E k \in 1..Len(select_call.posts) :
              /\ select_call.ret.val.title = select_call.posts[k].title
              /\ select_call.ret.val.body = select_call.posts[k].body
              /\ select_call.ret.val.url = select_call.posts[k].url
              /\ select_call.ret.val.score = select_call.posts[k].score

\* C1 witness: a fenced response choosing number 3 of a group of 3 returned
\* the third element
C1_Witness ==
    /\ select_call.returned
    /\ Len(select_call.posts) = 3
    /\ select_call.llm.kind = "text"
    /\ Contains(select_call.llm.text, FenceJson)
    /\ FailureCategory(select_call.llm) = "ok"
    /\ select_call.ret.exc = "none"
    /\ select_call.ret.val.url = select_call.posts[3].url
    /\ select_call.ret.val.title = select_call.posts[3].title

\* C3 as stated: the fallback is the first item, with the JSON-parse string
\* when the response could not be parsed or lacked the expected field, and the
\* service-error string when the LLM call itself failed.
C3_MissingFieldGetsJsonParseString ==
    select_call.returned =>
        LET cat == FailureCategory(select_call.llm)
        IN  /\ cat \in {"unparsable", "missing_field"} =>
                  select_call.ret =
                      Return(FirstItemWith(select_call.posts, select_call.subreddit,
                                           JsonParseString))
            /\ cat = "call_failed" =>
                  select_call.ret =
                      Return(FirstItemWith(select_call.posts, select_call.subreddit,
                                           ServiceErrorString))

\* C3 (amended): on a failure of the Selection step the result is the first
\* item of the group with a fixed reasoning that depends only on the kind of
\* failure: the JSON-parse string when the response text is not valid JSON,
\* the service-error string when the LLM call itself failed and also when the
\* parsed JSON lacks selected_number.  The result is a function of the group
\* and the kind of failure, so repeated calls return the identical idea.
C3_FallbackIsFirstItemWithFixedString ==
    select_call.returned =>
        LET cat == FailureCategory(select_call.llm)
        IN  /\ cat = "unparsable" =>
                  select_call.ret =
                      Return(FirstItemWith(select_call.posts, select_call.subreddit,
                                           JsonParseString))
            /\ cat \in {"call_failed", "missing_field"} =>
                  select_call.ret =
                      Return(FirstItemWith(select_call.posts, select_call.subreddit,
                                           ServiceErrorString))

\* C3 witness: a parsed object without selected_number, on a group of more
\* than one post, fell back to the first post with the service-error string
C3_Witness ==
    /\ select_call.returned
    /\ Len(select_call.posts) > 1
    /\ FailureCategory(select_call.llm) = "missing_field"
    /\ select_call.ret.exc = "none"
    /\ select_call.ret.val.title = select_call.posts[1].title
    /\ select_call.ret.val.groq_reasoning = ServiceErrorString

(***************************************************************************)
(* Properties of ask_gemini_rank_ideas (SpecRank).                         *)
(***************************************************************************)
\* the Ranking LLM call failed or its response did not parse
RankFailed(llm) ==
    \/ llm.kind \in {"raise", "none"}
    \/ (llm.kind = "text" /\ json_loads(strip_fences(llm.text)).exc # "none")

\* C2 as stated: for every m >= 1 ideas and every outcome of the Ranking LLM
\* boundary, the returned rankings has length m and its rank fields are a
\* permutation of 1..m.
C2_RankingsArePermutation ==
    rank_call.returned =>
        LET m == Len(rank_call.ideas)
            ret == rank_call.ret
        IN  /\ ret.exc = "none"
            /\ ret.val.kind = "object"
            /\ "rankings" \in DOMAIN ret.val.val
            /\ Len(ret.val.val.rankings) = m
            /\ \A k \in 1..m : "rank" \in DOMAIN ret.val.val.rankings[k]
            /\ {ret.val.val.rankings[k].rank : k \in 1..m} = 1..m

\* C4: when the Ranking LLM call or the parsing of its response fails, the
\* result has one entry per input idea, in input order, the entry at 0-based
\* position i with rank i+1, the title and subreddit of input i and
\* recommendation "watch", and overall_analysis is the analysis-failed string.
C4_DegradedRanking ==
    (rank_call.returned /\ RankFailed(rank_call.llm)) =>
        LET m == Len(rank_call.ideas)
            ret == rank_call.ret
        IN  /\ ret.exc = "none"
            /\ ret.val.kind = "object"
            /\ DOMAIN ret.val.val = {"rankings", "overall_analysis"}
            /\ Len(ret.val.val.rankings) = m
            /\ \A k \in 1..m :
                  /\ ret.val.val.rankings[k].rank = k
                  /\ ret.val.val.rankings[k].title = rank_call.ideas[k].title
                  /\ ret.val.val.rankings[k].subreddit = rank_call.ideas[k].subreddit
                  /\ ret.val.val.rankings[k].recommendation = "watch"
            /\ ret.val.val.overall_analysis.id
                  = "Gemini analysis failed. Manual review recommended."

\* C4 witness: the degraded ranking of three ideas after an unparsable response
C4_Witness ==
    /\ rank_call.returned
    /\ Len(rank_call.ideas) = 3
    /\ rank_call.llm.kind = "text"
    /\ RankFailed(rank_call.llm)
    /\ rank_call.ret.exc = "none"
    /\ rank_call.ret.val.val.rankings[3].rank = 3
    /\ rank_call.ret.val.val.rankings[3].recommendation = "watch"

(***************************************************************************)
(* Properties of send_to_discord (SpecSend).                               *)
(***************************************************************************)
\* the sink's success: a 2xx status
Delivered(outcome) == outcome.kind = "status" /\ outcome.code \in 200..299

\* embeds[k] (0 is the summary) has been handed to requests.post
Attempted(k) == \E j \in 1..Len(posted) : posted[j].embed = k

\* send_to_discord has returned after building its embeds
SentAndReturned == pc = "published" /\ embeds # <<>>

\* C5 as stated: the summary is attempted before any per-item message, and
\* after any delivery failure of the summary (a non-2xx status or a transport
\* error) every per-item message is still attempted.
C5_SummaryFailureKeepsItems ==
    SentAndReturned =>
        /\ posted # <<>>
        /\ posted[1].embed = 0
        /\ ~Delivered(posted[1].outcome) =>
              \A k \in 1..(Len(embeds) - 1) : Attempted(k)

\* C6 as stated: a delivery failure of one per-item message (a non-2xx status
\* or a transport error) leaves every later per-item message attempted, and
\* no message is attempted twice.
C6_ItemFailureAffectsThatMessageOnly ==
    SentAndReturned =>
        /\ \A j \in 1..Len(posted) :
              (posted[j].embed >= 1 /\ ~Delivered(posted[j].outcome)) =>
                  \A k \in (posted[j].embed + 1)..(Len(embeds) - 1) : Attempted(k)
        /\ \A j1, j2 \in 1..Len(posted) :
              posted[j1].embed = posted[j2].embed => j1 = j2

(***************************************************************************)
(* Properties of the whole run (Spec).                                     *)
(***************************************************************************)
IsSelectCall(c) == c.op = "ask_groq_select_idea"

IsRankCall(c) == c.op = "ask_gemini_rank_ideas"

IsSendCall(c) == c.op = "send_to_discord"

SelectCalls == SelectSeq(calls, IsSelectCall)

RankCalls == SelectSeq(calls, IsRankCall)

SendCalls == SelectSeq(calls, IsSendCall)

KeysPresent == ~Missing(GROQ_API_KEY) /\ ~Missing(GEMINI_API_KEY)

Snapshots == {output_file, "selected_ideas.json", "gemini_analysis.json"}

\* C7: whatever the feed, LLM and sink services do, no exception propagates
\* out of fetch_reddit_posts, ask_groq_select_idea (on a non-empty group),
\* ask_gemini_rank_ideas or send_to_discord into main(), and a run with both
\* keys that ends without reaching send_to_discord is one that selected zero
\* ideas.
C7_NoErrorEscapesAStage ==
    /\ escaped = {}
    /\ pc # "crashed"
    /\ (pc = "done" /\ KeysPresent /\ SendCalls = <<>>) =>
          (selected_ideas = <<>> /\ RankCalls = <<>>)

\* C7 witness: a finished run in which a selection fell back, the ranking
\* fell back and a POST raised a transport error
C7_Witness ==
    /\ pc = "done"
    /\ \E k \in 1..Len(SelectCalls) : SelectCalls[k].failed
    /\ analysis = RankFallback(selected_ideas)
    /\ posted # <<>>
    /\ posted[Len(posted)].outcome.kind = "raise"

\* the selection loop is over and nothing was selected
ZeroIdeasSelected ==
    /\ reddit_data # <<>>
    /\ sub_i = Len(reddit_data)
    /\ selected_ideas = <<>>

\* C8: when zero ideas are selected (every candidate group is empty) the run
\* ends without ask_gemini_rank_ideas or send_to_discord ever being called.
C8_NoIdeasEndsBeforeRanking ==
    ZeroIdeasSelected =>
        /\ \A k \in 1..Len(reddit_data) : reddit_data[k][2] = <<>>
        /\ pc \in {"select", "done"}
        /\ RankCalls = <<>>
        /\ SendCalls = <<>>
        /\ posted = <<>>

\* C8 witness: a run with both keys that ended with every group empty
C8_Witness ==
    /\ pc = "done"
    /\ ZeroIdeasSelected
    /\ Len(reddit_data) = Len(subreddits)
    /\ SelectCalls = <<>>

\* the environment leaves the webhook unset, empty, or spelled "None"
SinkUnconfigured == DISCORD_WEBHOOK_URL \in {PyNone, "", "None"}

\* C9: with the webhook unconfigured send_to_discord makes no POST and
\* raises nothing, and when it is called the three snapshot files have been
\* written.
C9_UnconfiguredSinkSendsNothing ==
    SinkUnconfigured =>
        /\ posted = <<>>
        /\ embeds = <<>>
        /\ "send_to_discord" \notin escaped
        /\ SendCalls # <<>> =>
              (pc \in {"published", "done"} /\ Snapshots \subseteq written)

\* C9 witness: a run that called send_to_discord with the webhook set to the
\* string "None" and finished
C9_Witness ==
    /\ pc = "done"
    /\ DISCORD_WEBHOOK_URL = "None"
    /\ SendCalls # <<>>
    /\ posted = <<>>

NonEmptyGroup(pair) == pair[2] # <<>>

\* C10: ask_groq_select_idea is called once for each non-empty group and for
\* no empty one, in source order; one SelectedIdea per non-empty group; the
\* ideas with a fallback reasoning string are those whose selection failed;
\* ask_gemini_rank_ideas is called at most once, after the loop, with all of
\* them, and exactly once when at least one idea was selected.
C10_OneSelectionPerNonEmptyGroup ==
    LET done_groups == SelectSeq(SubSeq(reddit_data, 1, sub_i), NonEmptyGroup)
    IN  /\ Len(SelectCalls) = Len(done_groups)
        /\ Len(selected_ideas) = Len(done_groups)
        /\ \A k \in 1..Len(done_groups) :
              /\ SelectCalls[k].subreddit = done_groups[k][1]
              /\ selected_ideas[k].subreddit = done_groups[k][1]
              /\ (selected_ideas[k].groq_reasoning \in {JsonParseString, ServiceErrorString})
                    <=> SelectCalls[k].failed
        /\ Len(RankCalls) <= 1
        /\ RankCalls # <<>> =>
              (sub_i = Len(reddit_data) /\ RankCalls[1].given = selected_ideas)
        /\ (pc \in {"publish", "send_main", "send_ideas", "published"}
            \/ (pc = "done" /\ selected_ideas # <<>>)) => Len(RankCalls) = 1

\* C10 witness: four non-empty groups, the selection failing for the third
\* only: four ideas, one fallback, four items ranked
C10_Witness ==
    /\ pc = "done"
    /\ Len(selected_ideas) = 4
    /\ [k \in 1..4 |-> SelectCalls[k].failed] = <<FALSE, FALSE, TRUE, FALSE>>
    /\ Cardinality({k \in 1..4 :
            selected_ideas[k].groq_reasoning \in {JsonParseString, ServiceErrorString}}) = 1
    /\ Len(RankCalls[1].given) = 4
    /\ analysis.kind = "object"
    /\ "rankings" \in DOMAIN analysis.val
    /\ Len(analysis.val.rankings) = 4

(***************************************************************************)
(* Properties of the embeds send_to_discord builds (SpecSend).             *)
(***************************************************************************)
\* the per-entry embeds, in the order they were built
ItemEmbeds == Tail(embeds)

\* the entries of analysis["rankings"] ranked strictly below r
RankedBelow(r) ==
    {k \in 1..Len(analysis.val.rankings) : analysis.val.rankings[k].rank < r}

\* C11 as stated: at most 4 per-entry messages are built, they are the entries
\* with the lowest rank values in ascending rank order, and they are sent in
\* ascending rank order, whatever the order of the entries inside rankings.
C11_ItemsInAscendingRankOrder ==
    embeds # <<>> =>
        /\ Len(ItemEmbeds) <= 4
        /\ \A i, j \in 1..Len(ItemEmbeds) :
              i < j => ItemEmbeds[i].rank <= ItemEmbeds[j].rank
        /\ \A i \in 1..Len(ItemEmbeds) :
              Cardinality(RankedBelow(ItemEmbeds[i].rank)) <= i - 1
        /\ \A j1, j2 \in 1..Len(posted) :
              (j1 < j2 /\ posted[j1].embed >= 1) =>
                  embeds[posted[j1].embed + 1].rank <= embeds[posted[j2].embed + 1].rank

(***************************************************************************)
(* send_to_discord called on its own with texts around the size budgets:   *)
(* one ranking entry whose title and long texts, and an overall analysis,  *)
(* are shorter than, as long as, and longer than what truncate lets        *)
(* through.                                                                *)
(***************************************************************************)
\* texts the Ranking LLM can put in a field with the given budget
SizedTexts(budget) ==
    {Str("text", n) : n \in {0, budget - 1, budget, budget + 1, 2 * budget}}
    \cup {Str("N/A", 3)}

\* the lengths of the title the Ranking LLM gives back: the idea's own title,
\* and titles that bring the embed's title to the budget of 256 and around it
SizedTitleLens == {40, 243, 244, 245, 246, 247, 600}

SizedEntry(rank, title_len, a, b) ==
    [RankingEntry(Idea(1), rank) EXCEPT
        !.title = StrN("title", 1, title_len),
        !.market_potential = a,
        !.feasibility = b,
        !.future_outlook = b,
        !.key_risks = a]

SizedAnalyses ==
    {JObject([rankings |-> <<SizedEntry(rank, title_len, a, b)>>,
              overall_analysis |-> o]) :
        rank \in {1, 4}, title_len \in SizedTitleLens,
        a \in SizedTexts(1024), b \in SizedTexts(1024), o \in SizedTexts(4096)}
    \cup {JObject([rankings |-> <<SizedEntry(1, 40, a, a)>>]) : a \in SizedTexts(1024)}

InitSize ==
    /\ GROQ_API_KEY = "set"
    /\ GEMINI_API_KEY = "set"
    /\ DISCORD_WEBHOOK_URL = "https://discord.example/webhook"
    /\ utc_offset = 0
    /\ pc = "publish"
    /\ all_data = <<>>
    /\ feeds_seen = <<>>
    /\ reddit_data = <<>>
    /\ sub_i = 0
    /\ selected_ideas = Ideas(1)
    /\ analysis \in SizedAnalyses
    /\ written = {output_file, "selected_ideas.json", "gemini_analysis.json"}
    /\ embeds = <<>>
    /\ next_embed = 0
    /\ posted = <<>>
    /\ calls = <<>>
    /\ escaped = {}
    /\ select_call = NoCall
    /\ rank_call = NoCall

NextSize ==
    \/ DiscordBuild
    \/ DiscordSendMain(RunPostOutcomes)
    \/ DiscordSendIdea(RunPostOutcomes)
    \/ DiscordReturn

SpecSize == InitSize /\ [][NextSize]_vars

(***************************************************************************)
(* Properties of the sizes of the embeds (SpecSize).                       *)
(***************************************************************************)
\* the text the summary description is made from, main.py:297
OverallText ==
    Get(analysis.val, "overall_analysis",
        Str("AI-powered analysis of top Reddit startup ideas", 47))

LongTextKeys == {"market_potential", "feasibility", "future_outlook", "key_risks"}

\* the long texts of rankings[k] that get a field: present and not empty
LongTextsOf(k) ==
    {key \in LongTextKeys :
        key \in DOMAIN analysis.val.rankings[k] /\ analysis.val.rankings[k][key].len > 0}

\* the value of the field of embeds[k + 1] made from the long text `key`
FieldValue(k, key) ==
    LET fields == embeds[k + 1].fields
    IN  fields[CHOOSE f \in 1..Len(fields) : fields[f].name = key].value

\* the pairs <<text given, text put in the payload, budget>> of the embeds
SizedPairs ==
    {<<OverallText, embeds[1].description, 4096>>}
    \cup {<<RankTitle(analysis.val.rankings[k]), embeds[k + 1].title, 256>> :
            k \in 1..(Len(embeds) - 1)}
    \cup UNION {{<<analysis.val.rankings[k][key], FieldValue(k, key), 1024>> :
                    key \in LongTextsOf(k)} : k \in 1..(Len(embeds) - 1)}

\* the payload text is within its budget, and is the given text cut and
\* marked when that was longer
FitsBudget(pair) ==
    /\ pair[2].len <= pair[3]
    /\ pair[1].len > pair[3] =>
          (pair[2].cut /\ pair[2].id = pair[1].id /\ pair[2].no = pair[1].no)

\* texts truncate replaces by a placeholder: the empty text and "N/A"
IsPlaceholderCase(text) == text.len = 0 \/ text = Str("N/A", 3)

\* C12 as stated: every text of every payload is within its budget, a longer
\* text is cut and marked, and every text within its budget is unchanged.
C12_WithinBudgetIsUnchanged ==
    embeds # <<>> =>
        \A pair \in SizedPairs :
            /\ FitsBudget(pair)
            /\ pair[1].len <= pair[3] => pair[2] = pair[1]

\* C12 amended: every text of every payload is within its budget (description
\* 4096, title 256, long-text field 1024), a longer text is cut to the budget
\* and marked, and a text within its budget is unchanged unless it is empty or
\* "N/A", which the payload shows as "Not available".
C12_SizeBudgets ==
    embeds # <<>> =>
        \A pair \in SizedPairs :
            /\ FitsBudget(pair)
            /\ (pair[1].len <= pair[3] /\ ~IsPlaceholderCase(pair[1])) => pair[2] = pair[1]
            /\ IsPlaceholderCase(pair[1]) => pair[2] = Str("Not available", 13)

\* C12 witness: a payload whose description, title and market-potential field
\* were all cut to their budgets while the feasibility text, exactly 1024
\* characters long, went through unchanged
C12_Witness ==
    /\ Len(embeds) = 2
    /\ OverallText.len = 4097
    /\ embeds[1].description.len = 4096
    /\ embeds[1].description.cut
    /\ embeds[2].title.len = 256
    /\ embeds[2].title.cut
    /\ analysis.val.rankings[1].market_potential.len = 1025
    /\ FieldValue(1, "market_potential").len = 1024
    /\ FieldValue(1, "market_potential").cut
    /\ analysis.val.rankings[1].feasibility = Str("text", 1024)
    /\ FieldValue(1, "feasibility") = Str("text", 1024)
    /\ posted # <<>>

(***************************************************************************)
(* Properties of the files main() writes (Spec).                           *)
(***************************************************************************)
\* C13 as stated: whatever path a run of main() takes, when it has ended each
\* of the three snapshot files has been written anew by that run.
C13_EveryRunWritesEverySnapshot ==
    pc = "done" => Snapshots \subseteq written

(***************************************************************************)
(* fetch_reddit_posts called on its own: for each subreddit any failure of *)
(* the transport or the parser, or a feed with entries on both sides of    *)
(* the 24 hour limit, without a date, and more than five recent ones; the  *)
(* process in a zone west of, at, or east of UTC.                          *)
(***************************************************************************)
UtcOffsets == {-5 * 3600, 0, 5 * 3600}

\* entries number j of subreddit number k, published at the instant t
EntryAt(k, j, t) == FeedEntry(10 * k + j, <<t>>, 300)

\* an entry without published_parsed
EntryUndated(k, j) == FeedEntry(10 * k + j, <<>>, 300)

FetchFeeds(k) ==
    {[kind |-> "raise", exc |-> "ConnectionError"],
     [kind |-> "raise", exc |-> "HTTPError"],
     [kind |-> "raise", exc |-> "FeedError"],
     [kind |-> "feed", entries |-> <<>>],
     [kind |-> "feed",
      entries |-> <<EntryAt(k, 1, NowTs - 24 * 3600 - 1),
                    EntryAt(k, 2, NowTs - 24 * 3600),
                    EntryUndated(k, 3),
                    EntryAt(k, 4, NowTs - 24 * 3600 + 1)>>],
     [kind |-> "feed",
      entries |-> [j \in 1..7 |-> EntryAt(k, j, NowTs - 60 * j)]],
     [kind |-> "feed",
      entries |-> <<EntryAt(k, 1, NowTs - 60),
                    EntryAt(k, 2, NowTs - 2 * 24 * 3600),
                    EntryAt(k, 3, NowTs - 120),
                    EntryUndated(k, 4),
                    EntryAt(k, 5, NowTs - 180),
                    EntryAt(k, 6, NowTs - 240),
                    EntryAt(k, 7, NowTs - 300),
                    EntryAt(k, 8, NowTs - 360)>>]}

InitFetch ==
    /\ GROQ_API_KEY = "set"
    /\ GEMINI_API_KEY = "set"
    /\ DISCORD_WEBHOOK_URL = PyNone
    /\ utc_offset \in UtcOffsets
    /\ pc = "fetch"
    /\ Fresh
    /\ select_call = NoCall
    /\ rank_call = NoCall

NextFetch == FetchSubreddit(FetchFeeds(Len(all_data) + 1))

SpecFetch == InitFetch /\ [][NextFetch]_vars

(***************************************************************************)
(* Properties of fetch_reddit_posts (SpecFetch).                           *)
(***************************************************************************)
\* the transport or the parser failed for this source
FeedFailed(feed) == feed.kind = "raise"

\* C14: whatever sources fail, fetch_reddit_posts goes on to the next source
\* and raises nothing, the mapping has a key for every source tried, in the
\* configured order, and a source that failed maps to the empty sequence.
C14_FailedSourceMapsToEmpty ==
    /\ pc = "fetch"
    /\ "fetch_reddit_posts" \notin escaped
    /\ Len(all_data) = Len(feeds_seen)
    /\ \A k \in 1..Len(all_data) :
          /\ all_data[k][1] = subreddits[k]
          /\ FeedFailed(feeds_seen[k]) => all_data[k][2] = <<>>

\* C14 witness: the first and third sources failed, the second and fourth
\* were fetched and have posts, and the mapping has all four keys
C14_Witness ==
    /\ Len(all_data) = Len(subreddits)
    /\ FeedFailed(feeds_seen[1])
    /\ all_data[2][2] # <<>>
    /\ FeedFailed(feeds_seen[3])
    /\ all_data[3][2] = <<>>
    /\ all_data[4][2] # <<>>

\* the entry has a date and was created within 24 hours before now
IsRecent(entry) ==
    entry.published # <<>> /\ NowTs - entry.published[1] <= 24 * 3600

\* the titles of the first min(5, k) of the k recent entries of a feed
ExpectedTitles(feed) ==
    LET recent == SelectSeq(feed.entries, IsRecent)
    IN  [j \in 1..(IF Len(recent) < 5 THEN Len(recent) ELSE 5) |-> recent[j].title]

\* C15 as stated: the group of a source whose feed was read is the first
\* min(5, k) items, in feed order, of the k items created within 24 hours
\* before now (the limit included), undated items left out.
C15_GroupIsFirstFiveRecent ==
    \A k \in 1..Len(all_data) :
        feeds_seen[k].kind = "feed" =>
            /\ Len(all_data[k][2]) <= 5
            /\ [j \in 1..Len(all_data[k][2]) |-> all_data[k][2][j].title]
                  = ExpectedTitles(feeds_seen[k])

(***************************************************************************)
(* Properties of the index and the reasoning chosen by                     *)
(* ask_groq_select_idea (SpecSelect).                                      *)
(***************************************************************************)
\* the JSON object of a response that parsed to one
ParsedObject(llm) == json_loads(strip_fences(llm.text)).val.val

\* the call returned after a response that is a JSON object with an integer
\* selected_number
SelectedByNumber ==
    /\ select_call.returned
    /\ FailureCategory(select_call.llm) = "ok"

\* the post at the 0-based index, as the SelectedIdea without its reasoning
IsPostAt(idea, posts, index) ==
    /\ idea.title = posts[index + 1].title
    /\ idea.body = posts[index + 1].body
    /\ idea.url = posts[index + 1].url
    /\ idea.score = posts[index + 1].score

\* C16: for a response that is parsable JSON with an integer selected_number,
\* the call returns normally, not through a fallback; it selects the first
\* item when selected_number - 1 is outside [0, count) and the item at index
\* selected_number - 1 when it is inside.
C16_OutOfRangeIndexSelectsFirst ==
    SelectedByNumber =>
        LET number == ParsedObject(select_call.llm).selected_number.n
            count == Len(select_call.posts)
            ret == select_call.ret
        IN  /\ ret.exc = "none"
            /\ ret.val.subreddit = select_call.subreddit
            /\ ret.val.groq_reasoning \notin {JsonParseString, ServiceErrorString}
            /\ IF number - 1 \in 0..(count - 1)
               THEN IsPostAt(ret.val, select_call.posts, number - 1)
               ELSE IsPostAt(ret.val, select_call.posts, 0)

\* C16 witness: selected_number one more than the count of a group of three,
\* the first post returned with the model's rationale
C16_Witness ==
    /\ SelectedByNumber
    /\ Len(select_call.posts) = 3
    /\ ParsedObject(select_call.llm).selected_number.n = 4
    /\ select_call.ret.exc = "none"
    /\ select_call.ret.val.title = select_call.posts[1].title
    /\ select_call.ret.val.groq_reasoning = "rationale"

\* C17 as stated: for every response of the Selection LLM the SelectedIdea
\* returned has a reasoning that is neither null nor empty.
C17_ReasoningAlwaysPopulated ==
    (select_call.returned /\ select_call.ret.exc = "none") =>
        select_call.ret.val.groq_reasoning \notin {"", PyNone}

(***************************************************************************)
(* Properties of the pauses of main() (Spec).                              *)
(***************************************************************************)
IsSleepCall(c) == c.op = "time.sleep"

\* the positions in calls of the Selection Stage calls
SelectPositions == {k \in 1..Len(calls) : IsSelectCall(calls[k])}

\* the positions in calls of the 30 second pauses
SleepPositions == {k \in 1..Len(calls) : IsSleepCall(calls[k]) /\ calls[k].seconds = 30}

\* the selection loop has ended
SelectionOver == pc \in {"rank", "publish", "send_main", "send_ideas", "published", "done"}

\* C18 as stated: a 30 second pause lies between every two consecutive
\* Selection Stage calls, and once the loop has ended no pause lies after the
\* last Selection Stage call, whichever groups are empty.
C18_PauseOnlyBetweenSelections ==
    /\ \A k1, k2 \in SelectPositions :
          k1 < k2 => \E p \in SleepPositions : k1 < p /\ p < k2
    /\ SelectionOver =>
          \A p \in SleepPositions : \E k \in SelectPositions : p < k

(***************************************************************************)
(* Properties of the pacing and the ordering of the sends (SpecSend).      *)
(***************************************************************************)
\* C19 as stated: whenever two per-item sends are attempted one after the
\* other, the pacing delay lies between them, whether the earlier one
\* succeeded or failed.
C19_DelayBetweenItemSends ==
    \A j \in 1..(Len(posted) - 1) :
        (posted[j].embed >= 1 /\ posted[j + 1].embed >= 1) => posted[j].slept

\* the entries send_to_discord builds a message for: analysis["rankings"][:4]
EntriesToBuild ==
    IF analysis.kind = "object" /\ "rankings" \in DOMAIN analysis.val
    THEN First4(analysis.val.rankings)
    ELSE <<>>

\* send_to_discord has been called with the webhook configured
SendStarted == pc # "publish" /\ WebhookConfigured(DISCORD_WEBHOOK_URL)

\* an entry as the claim describes one whose message cannot be built: without
\* a title or a rank, or with a rank outside 1..4
BadEntryAsStated(entry) ==
    \/ "title" \notin DOMAIN entry
    \/ "rank" \notin DOMAIN entry
    \/ entry.rank \notin 1..4

\* an entry whose message cannot be built: without a title or a rank, or with
\* a rank above 4 or below -3 (rank - 1 indexes a list of four, and Python
\* counts the indexes -1 to -4 from the end of the list)
BadEntry(entry) ==
    \/ "title" \notin DOMAIN entry
    \/ "rank" \notin DOMAIN entry
    \/ entry.rank > 4
    \/ entry.rank < -3

\* every payload is built before anything is sent
BuiltBeforeSent ==
    posted # <<>> => Len(embeds) = 1 + Len(EntriesToBuild)

\* C20 as stated: every payload is built before the first send, and when one
\* of the entries has no title, no rank, or a rank outside 1..4, nothing is
\* sent, the summary included.
C20_BadEntryAsStatedSendsNothing ==
    SendStarted =>
        /\ BuiltBeforeSent
        /\ (\E k \in 1..Len(EntriesToBuild) : BadEntryAsStated(EntriesToBuild[k]))
              => posted = <<>>

\* C20 amended: every payload is built before the first send, and when the
\* message of one of the first four entries cannot be built (no title, no
\* rank, or a rank above 4 or below -3) nothing is sent, the summary included.
C20_FailedBuildSendsNothing ==
    SendStarted =>
        /\ BuiltBeforeSent
        /\ (\E k \in 1..Len(EntriesToBuild) : BadEntry(EntriesToBuild[k]))
              => (posted = <<>> /\ embeds = <<>> /\ pc = "published")

\* C20 witness: the first entry can be built and the second, ranked 5, cannot;
\* send_to_discord has returned and nothing was sent
C20_Witness ==
    /\ SendStarted
    /\ pc = "published"
    /\ Len(EntriesToBuild) >= 2
    /\ ~BadEntry(EntriesToBuild[1])
    /\ "rank" \in DOMAIN EntriesToBuild[2]
    /\ EntriesToBuild[2].rank = 5
    /\ posted = <<>>
    /\ calls # <<>>

(***************************************************************************)
(* Properties of the credential check (Spec).                              *)
(***************************************************************************)
\* the environment gives no value, or an empty one, for the credential
CredentialAbsent(key) == key \in {PyNone, ""}

\* C21: when GROQ_API_KEY or GEMINI_API_KEY is absent the run ends before any
\* stage: it never gets past the check of the keys, no feed is fetched, no
\* stage function, LLM or webhook is called, and no snapshot file is written.
C21_AbsentCredentialRunsNothing ==
    (CredentialAbsent(GROQ_API_KEY) \/ CredentialAbsent(GEMINI_API_KEY)) =>
        /\ pc \in {"import", "import_failed", "start", "done"}
        /\ feeds_seen = <<>>
        /\ all_data = <<>>
        /\ calls = <<>>
        /\ posted = <<>>
        /\ written = {}
        /\ selected_ideas = <<>>
        /\ analysis = JNull

\* C21 witness: main() has returned with GROQ_API_KEY unset and GEMINI_API_KEY
\* set, nothing fetched, called or written
C21_Witness ==
    /\ pc = "done"
    /\ GROQ_API_KEY = PyNone
    /\ GEMINI_API_KEY = "set"
    /\ calls = <<>>
    /\ written = {}

====
